---- MODULE Spec2Model ----
(***************************************************************************)
(* Model of the CPU scheduling engine, class Scheduler                     *)
(* (include/scheduler.h, src/scheduler.cpp), as driven by its callers      *)
(* (tests/test_runner.cpp, src/wasm_main.cpp).                             *)
(*                                                                         *)
(* A process is a record with the fields of struct Process that            *)
(* scheduler.cpp reads or writes.  The pools are sequences, as the         *)
(* std::vector members are; cpu is a sequence of length 0 or 1.            *)
(* tick() is one action: its phases are operators on a record of the       *)
(* engine's members, composed in the order the code runs them.             *)
(***************************************************************************)
EXTENDS Integers, Sequences, FiniteSets, TLC

(* ------------------------------ bounds -------------------------------- *)
MaxProcs == 3
MaxArrival == 1
MaxBurst == 3
MaxPrio == 1
MaxQuantum == 2
\* how far below zero the quantum values passed to setTimeQuantum go
MaxNegQuantum == 1
MaxThreshold == 2
\* total burst time of the processes submitted in one run
MaxWork == 4

\* ticks enough for every workload within the bounds to drain, plus one
MaxTime == MaxArrival + MaxWork + 1

(* ------------------------- program constants -------------------------- *)
\* int timeQuantum = 2;
DefaultQuantum == 2
\* int agingThreshold = 5;
DefaultAgingThreshold == 5
\* int startTime = -1; int completionTime = -1; int responseTime = -1;
Unset == -1
\* policy names the callers pass; "Lottery" stands for a name no branch tests
Algorithms == {"FCFS", "SJF", "SRTF", "RR", "Priority", "PriorityNP", "Lottery"}

\* int lastExecutedId = -1: the id that stands for "no process"; a trace field
\* holds it when the tick had no such event (the ids submitted are >= 1)
NoId == -1
Ids == 1..MaxProcs

VARIABLES
    algorithm,           \* std::string algorithm
    timeQuantum,         \* int timeQuantum
    agingEnabled,        \* bool agingEnabled
    agingThreshold,      \* int agingThreshold
    currentTime,         \* int currentTime
    jobPool,             \* std::vector<Process> jobPool
    readyQueue,          \* std::vector<Process> readyQueue
    finishedProcesses,   \* std::vector<Process> finishedProcesses
    cpu,                 \* std::vector<Process> cpu (size 0 or 1)
    currentQuantumUsed,  \* int currentQuantumUsed
    lastExecutedId,      \* int lastExecutedId
    log,                 \* the events of the trace line the last tick() returned
    submitted,           \* history: ids passed to addProcess so far
    submittedPriority,   \* history: the priority each id was passed to addProcess with
    dispatchRun,         \* history: ticks the cpu occupant has executed since its dispatch
    snapshot             \* history: what getStateJSON() returned, if it was called
                         \* after the last tick() or mutator; a sequence of 0 or 1

vars == <<algorithm, timeQuantum, agingEnabled, agingThreshold, currentTime,
          jobPool, readyQueue, finishedProcesses, cpu, currentQuantumUsed, log,
          lastExecutedId, submitted, submittedPriority, dispatchRun, snapshot>>

(* ------------------------------ helpers ------------------------------- *)
SeqIds(s) == [i \in 1..Len(s) |-> s[i].id]
IdSet(s) == {s[i].id : i \in 1..Len(s)}
Range(s) == {s[i] : i \in 1..Len(s)}
\* position of id in a sequence of ids, 0 when absent
Pos(ids, id) == IF \E i \in 1..Len(ids) : ids[i] = id
                THEN CHOOSE i \in 1..Len(ids) : ids[i] = id
                ELSE 0
RemoveAt(s, i) == [j \in 1..(Len(s) - 1) |-> IF j < i THEN s[j] ELSE s[j + 1]]

\* Process p; ... in addProcess, with the in-class initialisers of struct Process
NewProcess(id, arrivalTime, burstTime, priority) ==
    [id |-> id, arrivalTime |-> arrivalTime, burstTime |-> burstTime,
     priority |-> priority, remainingTime |-> burstTime, startTime |-> Unset,
     completionTime |-> Unset, waitingTime |-> 0, turnaroundTime |-> 0,
     responseTime |-> Unset, ageCounter |-> 0]

NoLog == [expired |-> NoId, preempted |-> NoId, started |-> NoId,
          running |-> NoId, finished |-> NoId, idle |-> FALSE]

\* the members tick() works on, as one record
Engine == [algorithm |-> algorithm, timeQuantum |-> timeQuantum,
           currentTime |-> currentTime, jobPool |-> jobPool,
           readyQueue |-> readyQueue, finishedProcesses |-> finishedProcesses,
           cpu |-> cpu, currentQuantumUsed |-> currentQuantumUsed, log |-> NoLog]

(* ------------------------------- phases ------------------------------- *)
\* isFinished() without the cpu.empty() test
isFinishedIgnoresCpu == jobPool = <<>> /\ readyQueue = <<>>

\* bool Scheduler::isFinished() const
isFinished == jobPool = <<>> /\ readyQueue = <<>> /\ cpu = <<>>

\* checkArrivals scanning jobPool from the back: simultaneous arrivals enter
\* readyQueue in reverse submission order
checkArrivalsFromBack(s) ==
    LET arrived(p) == p.arrivalTime <= s.currentTime
        waiting(p) == ~arrived(p)
        due == SelectSeq(s.jobPool, arrived)
        reversed == [i \in 1..Len(due) |-> due[Len(due) + 1 - i]]
    IN [s EXCEPT !.readyQueue = s.readyQueue \o reversed,
                 !.jobPool = SelectSeq(s.jobPool, waiting)]

\* checkArrivals testing arrivalTime < currentTime: a process enters the
\* ready pool one tick after its arrival time
checkArrivalsLate(s) ==
    LET arrived(p) == p.arrivalTime < s.currentTime
        waiting(p) == ~arrived(p)
    IN [s EXCEPT !.readyQueue = s.readyQueue \o SelectSeq(s.jobPool, arrived),
                 !.jobPool = SelectSeq(s.jobPool, waiting)]

\* void Scheduler::checkArrivals(): erase from jobPool, push_back to readyQueue
checkArrivals(s) ==
    LET arrived(p) == p.arrivalTime <= s.currentTime
        waiting(p) == ~arrived(p)
    IN [s EXCEPT !.readyQueue = s.readyQueue \o SelectSeq(s.jobPool, arrived),
                 !.jobPool = SelectSeq(s.jobPool, waiting)]

\* preemptCPU without cpu.clear(): the process is copied, not moved
preemptCPUKeepsSlot(s) ==
    IF s.cpu # <<>>
    THEN [s EXCEPT !.readyQueue = Append(s.readyQueue, s.cpu[1])]
    ELSE s

\* preemptCPU returning the process to jobPool instead of readyQueue
preemptCPUToJobPool(s) ==
    IF s.cpu # <<>>
    THEN [s EXCEPT !.jobPool = Append(s.jobPool, s.cpu[1]), !.cpu = <<>>]
    ELSE s

\* void Scheduler::preemptCPU(bool): both branches push_back
preemptCPU(s) ==
    IF s.cpu # <<>>
    THEN [s EXCEPT !.readyQueue = Append(s.readyQueue, s.cpu[1]), !.cpu = <<>>]
    ELSE s

\* quantum expiry tested with > instead of >=
quantumExpiryLate(s) ==
    IF s.algorithm = "RR" /\ s.cpu # <<>>
    THEN LET q == s.currentQuantumUsed + 1
         IN IF q > s.timeQuantum /\ s.cpu[1].remainingTime > 0
            THEN [preemptCPU(s) EXCEPT !.currentQuantumUsed = 0,
                                       !.log.expired = s.cpu[1].id]
            ELSE [s EXCEPT !.currentQuantumUsed = q]
    ELSE s

\* quantum expiry without the algorithm == "RR" test
quantumExpiryAnyPolicy(s) ==
    IF s.cpu # <<>>
    THEN LET q == s.currentQuantumUsed + 1
         IN IF q >= s.timeQuantum /\ s.cpu[1].remainingTime > 0
            THEN [preemptCPU(s) EXCEPT !.currentQuantumUsed = 0,
                                       !.log.expired = s.cpu[1].id]
            ELSE [s EXCEPT !.currentQuantumUsed = q]
    ELSE s

\* quantum expiry tested with == instead of >=
quantumExpiryExact(s) ==
    IF s.algorithm = "RR" /\ s.cpu # <<>>
    THEN LET q == s.currentQuantumUsed + 1
         IN IF q = s.timeQuantum /\ s.cpu[1].remainingTime > 0
            THEN [preemptCPU(s) EXCEPT !.currentQuantumUsed = 0,
                                       !.log.expired = s.cpu[1].id]
            ELSE [s EXCEPT !.currentQuantumUsed = q]
    ELSE s

\* tick(), 1: round-robin quantum expiry
quantumExpiry(s) ==
    IF s.algorithm = "RR" /\ s.cpu # <<>>
    THEN LET q == s.currentQuantumUsed + 1
         IN IF q >= s.timeQuantum /\ s.cpu[1].remainingTime > 0
            THEN [preemptCPU(s) EXCEPT !.currentQuantumUsed = 0,
                                       !.log.expired = s.cpu[1].id]
            ELSE [s EXCEPT !.currentQuantumUsed = q]
    ELSE s

\* the comparator lambdas of tick(): SJF, SRTF (also min_element), Priority
lessSJF(a, b) ==
    IF a.burstTime # b.burstTime THEN a.burstTime < b.burstTime ELSE a.id < b.id
lessSRTF(a, b) ==
    IF a.remainingTime # b.remainingTime THEN a.remainingTime < b.remainingTime
    ELSE a.id < b.id
lessPriority(a, b) ==
    IF a.priority # b.priority THEN a.priority < b.priority ELSE a.id < b.id

\* which comparator the dispatch branch sorts with; FALSE everywhere: no sort
less(algo, a, b) ==
    CASE algo = "SJF" -> lessSJF(a, b)
      [] algo = "SRTF" -> lessSRTF(a, b)
      [] algo = "Priority" -> lessPriority(a, b)
      [] OTHER -> FALSE

sorts(algo) == algo \in {"SJF", "SRTF", "Priority"}

\* std::min_element: the first element no other element is less than
minIndex(algo, q) ==
    CHOOSE i \in 1..Len(q) :
        /\ \A j \in 1..Len(q) : ~less(algo, q[j], q[i])
        /\ \A j \in 1..(i - 1) : less(algo, q[j], q[i]) \/ less(algo, q[i], q[j])

\* std::sort under a strict total order (ids are unique): the one sorted permutation
RECURSIVE sorted(_, _)
sorted(algo, q) ==
    IF q = <<>> THEN <<>>
    ELSE LET i == minIndex(algo, q)
         IN <<q[i]>> \o sorted(algo, RemoveAt(q, i))

\* SRTF preemption tested with <= instead of <: preempts on a tie
preemptSRTFOnTie(s) ==
    IF s.algorithm = "SRTF" /\ s.cpu # <<>> /\ s.readyQueue # <<>>
    THEN LET shortestInQueue == s.readyQueue[minIndex("SRTF", s.readyQueue)]
         IN IF shortestInQueue.remainingTime <= s.cpu[1].remainingTime
            THEN [preemptCPU(s) EXCEPT !.log.preempted = s.cpu[1].id]
            ELSE s
    ELSE s

\* tick() without the SRTF preemption block
preemptSRTFMissing(s) == s

\* tick(), 3 first half: SRTF preemption
preemptSRTF(s) ==
    IF s.algorithm = "SRTF" /\ s.cpu # <<>> /\ s.readyQueue # <<>>
    THEN LET shortestInQueue == s.readyQueue[minIndex("SRTF", s.readyQueue)]
         IN IF shortestInQueue.remainingTime < s.cpu[1].remainingTime
            THEN [preemptCPU(s) EXCEPT !.log.preempted = s.cpu[1].id]
            ELSE s
    ELSE s

\* dispatch with the last sort branch a plain else: every name but
\* FCFS, RR, SJF and SRTF sorts by priority
dispatchElsePriority(s) ==
    IF s.cpu = <<>> /\ s.readyQueue # <<>>
    THEN LET q == IF s.algorithm \in {"FCFS", "RR"} THEN s.readyQueue
                  ELSE IF s.algorithm \in {"SJF", "SRTF"}
                       THEN sorted(s.algorithm, s.readyQueue)
                       ELSE sorted("Priority", s.readyQueue)
             p == Head(q)
             started == IF p.startTime = Unset
                        THEN [p EXCEPT !.startTime = s.currentTime]
                        ELSE p
         IN [s EXCEPT !.cpu = <<started>>, !.readyQueue = Tail(q),
                      !.currentQuantumUsed = 0, !.log.started = p.id]
    ELSE s

\* dispatch placed inside the policy branches: a name with no branch
\* dispatches nothing
dispatchInsideBranches(s) ==
    IF s.cpu = <<>> /\ s.readyQueue # <<>>
          /\ s.algorithm \in {"FCFS", "RR", "SJF", "SRTF", "Priority"}
    THEN LET q == IF sorts(s.algorithm) THEN sorted(s.algorithm, s.readyQueue)
                  ELSE s.readyQueue
             p == Head(q)
             started == IF p.startTime = Unset
                        THEN [p EXCEPT !.startTime = s.currentTime]
                        ELSE p
         IN [s EXCEPT !.cpu = <<started>>, !.readyQueue = Tail(q),
                      !.currentQuantumUsed = 0, !.log.started = p.id]
    ELSE s

\* tick(), 3 second half: pick the next process when the CPU is idle
dispatch(s) ==
    IF s.cpu = <<>> /\ s.readyQueue # <<>>
    THEN LET q == IF sorts(s.algorithm) THEN sorted(s.algorithm, s.readyQueue)
                  ELSE s.readyQueue
             p == Head(q)
             started == IF p.startTime = Unset
                        THEN [p EXCEPT !.startTime = s.currentTime]
                        ELSE p
         IN [s EXCEPT !.cpu = <<started>>, !.readyQueue = Tail(q),
                      !.currentQuantumUsed = 0, !.log.started = p.id]
    ELSE s

\* the waiting-time loop placed after the finish check, in its else branch
executeNoWaitOnFinish(s) ==
    IF s.cpu # <<>>
    THEN LET p == [s.cpu[1] EXCEPT !.remainingTime = @ - 1]
             waited == [i \in 1..Len(s.readyQueue) |->
                           [s.readyQueue[i] EXCEPT !.waitingTime = @ + 1]]
             done == [p EXCEPT !.completionTime = s.currentTime + 1,
                               !.turnaroundTime = s.currentTime + 1 - p.arrivalTime]
         IN IF p.remainingTime <= 0
            THEN [s EXCEPT !.finishedProcesses = Append(s.finishedProcesses, done),
                           !.cpu = <<>>, !.currentQuantumUsed = 0,
                           !.log.running = p.id, !.log.finished = p.id]
            ELSE [s EXCEPT !.readyQueue = waited, !.cpu = <<p>>,
                           !.log.running = p.id]
    ELSE [s EXCEPT !.log.idle = TRUE]

\* the completion test written as remainingTime < 0
executeFinishLate(s) ==
    IF s.cpu # <<>>
    THEN LET p == [s.cpu[1] EXCEPT !.remainingTime = @ - 1]
             waited == [i \in 1..Len(s.readyQueue) |->
                          [s.readyQueue[i] EXCEPT !.waitingTime = @ + 1]]
             done == [p EXCEPT !.completionTime = s.currentTime + 1,
                               !.turnaroundTime = s.currentTime + 1 - p.arrivalTime]
         IN IF p.remainingTime < 0
            THEN [s EXCEPT !.readyQueue = waited,
                           !.finishedProcesses = Append(s.finishedProcesses, done),
                           !.cpu = <<>>, !.currentQuantumUsed = 0,
                           !.log.running = p.id, !.log.finished = p.id]
            ELSE [s EXCEPT !.readyQueue = waited, !.cpu = <<p>>,
                           !.log.running = p.id]
    ELSE [s EXCEPT !.log.idle = TRUE]

\* the waiting-time loop running over cpu as well as readyQueue
executeWaitsOnCpu(s) ==
    IF s.cpu # <<>>
    THEN LET p == [s.cpu[1] EXCEPT !.remainingTime = @ - 1, !.waitingTime = @ + 1]
             waited == [i \in 1..Len(s.readyQueue) |->
                          [s.readyQueue[i] EXCEPT !.waitingTime = @ + 1]]
             done == [p EXCEPT !.completionTime = s.currentTime + 1,
                               !.turnaroundTime = s.currentTime + 1 - p.arrivalTime]
         IN IF p.remainingTime <= 0
            THEN [s EXCEPT !.readyQueue = waited,
                           !.finishedProcesses = Append(s.finishedProcesses, done),
                           !.cpu = <<>>, !.currentQuantumUsed = 0,
                           !.log.running = p.id, !.log.finished = p.id]
            ELSE [s EXCEPT !.readyQueue = waited, !.cpu = <<p>>,
                           !.log.running = p.id]
    ELSE [s EXCEPT !.log.idle = TRUE]

\* tick(), 4: one unit of work, waiting times, completion
execute(s) ==
    IF s.cpu # <<>>
    THEN LET p == [s.cpu[1] EXCEPT !.remainingTime = @ - 1]
             waited == [i \in 1..Len(s.readyQueue) |->
                           [s.readyQueue[i] EXCEPT !.waitingTime = @ + 1]]
             done == [p EXCEPT !.completionTime = s.currentTime + 1,
                               !.turnaroundTime = s.currentTime + 1 - p.arrivalTime]
         IN IF p.remainingTime <= 0
            THEN [s EXCEPT !.readyQueue = waited,
                           !.finishedProcesses = Append(s.finishedProcesses, done),
                           !.cpu = <<>>, !.currentQuantumUsed = 0,
                           !.log.running = p.id, !.log.finished = p.id]
            ELSE [s EXCEPT !.readyQueue = waited, !.cpu = <<p>>,
                           !.log.running = p.id]
    ELSE [s EXCEPT !.log.idle = TRUE]

\* tick() with checkArrivals() called before the quantum-expiry block
tickResultArrivalsFirst(s) ==
    LET r == execute(dispatch(preemptSRTF(quantumExpiry(checkArrivals(s)))))
    IN [r EXCEPT !.currentTime = s.currentTime + 1]

\* tick() with the quantum-expiry block placed after dispatch
tickResultExpiryAfterDispatch(s) ==
    LET r == execute(quantumExpiry(dispatch(preemptSRTF(checkArrivals(s)))))
    IN [r EXCEPT !.currentTime = s.currentTime + 1]

\* std::string Scheduler::tick(): the phases in order, then currentTime++
tickResult(s) ==
    LET r == execute(dispatch(preemptSRTF(checkArrivals(quantumExpiry(s)))))
    IN [r EXCEPT !.currentTime = s.currentTime + 1]

(* ------------------------------ actions ------------------------------- *)
RECURSIVE burstSum(_)
burstSum(q) == IF q = <<>> THEN 0 ELSE Head(q).burstTime + burstSum(Tail(q))
\* burst time submitted so far
Work == burstSum(jobPool) + burstSum(readyQueue) + burstSum(cpu)
        + burstSum(finishedProcesses)

Init ==
    /\ algorithm = "FCFS"
    /\ timeQuantum = DefaultQuantum
    /\ agingEnabled = FALSE
    /\ agingThreshold = DefaultAgingThreshold
    /\ currentTime = 0
    /\ jobPool = <<>>
    /\ readyQueue = <<>>
    /\ finishedProcesses = <<>>
    /\ cpu = <<>>
    /\ currentQuantumUsed = 0
    /\ log = NoLog
    /\ submitted = {}
    /\ submittedPriority = [i \in {} |-> 0]
    /\ dispatchRun = 0
    /\ lastExecutedId = NoId
    /\ snapshot = <<>>

\* void Scheduler::addProcess(id, name, arrivalTime, burstTime, priority)
\* inputs: a fresh id, burstTime > 0 within the work bound, an arrivalTime
\* that has not passed
addProcess(id, arrivalTime, burstTime, priority) ==
    /\ jobPool' = Append(jobPool, NewProcess(id, arrivalTime, burstTime, priority))
    /\ submitted' = submitted \cup {id}
    /\ submittedPriority' = [i \in submitted \cup {id} |->
                               IF i = id THEN priority ELSE submittedPriority[i]]
    /\ UNCHANGED <<algorithm, timeQuantum, agingEnabled, agingThreshold,
                   currentTime, readyQueue, finishedProcesses, cpu,
                   currentQuantumUsed, log, dispatchRun, lastExecutedId>>
    /\ snapshot' = <<>>

AddProcess ==
    \E id \in Ids \ submitted, arrivalTime \in currentTime..MaxArrival,
       burstTime \in 1..MaxBurst, priority \in 0..MaxPrio :
        /\ burstTime <= MaxWork - Work
        /\ addProcess(id, arrivalTime, burstTime, priority)

\* void Scheduler::setAlgorithm(std::string algo)
setAlgorithm(algo) ==
    /\ algorithm' = algo
    /\ UNCHANGED <<timeQuantum, agingEnabled, agingThreshold, currentTime,
                   jobPool, readyQueue, finishedProcesses, cpu,
                   currentQuantumUsed, log, submitted, submittedPriority,
                   dispatchRun, lastExecutedId>>
    /\ snapshot' = <<>>

SetAlgorithm == \E algo \in Algorithms : setAlgorithm(algo)

\* void Scheduler::setTimeQuantum(int q)
setTimeQuantum(q) ==
    /\ timeQuantum' = q
    /\ UNCHANGED <<algorithm, agingEnabled, agingThreshold, currentTime,
                   jobPool, readyQueue, finishedProcesses, cpu,
                   currentQuantumUsed, log, submitted, submittedPriority,
                   dispatchRun, lastExecutedId>>
    /\ snapshot' = <<>>

SetTimeQuantum == \E q \in (0 - MaxNegQuantum)..MaxQuantum : setTimeQuantum(q)

\* one call of tick()
Tick ==
    /\ currentTime < MaxTime
    /\ LET r == tickResult(Engine)
       IN /\ currentTime' = r.currentTime
          /\ jobPool' = r.jobPool
          /\ readyQueue' = r.readyQueue
          /\ finishedProcesses' = r.finishedProcesses
          /\ cpu' = r.cpu
          /\ currentQuantumUsed' = r.currentQuantumUsed
          /\ log' = r.log
          /\ dispatchRun' = IF r.cpu = <<>> THEN 0
                            ELSE IF r.log.started # NoId THEN 1
                            ELSE dispatchRun + 1
    /\ UNCHANGED <<algorithm, timeQuantum, agingEnabled, agingThreshold,
                   lastExecutedId, submitted, submittedPriority>>
    /\ snapshot' = <<>>

Next == AddProcess \/ SetAlgorithm \/ SetTimeQuantum \/ Tick

Spec == Init /\ [][Next]_vars

\* runTest() of tests/test_runner.cpp: configure and submit, then tick until finished
HarnessSetup == currentTime = 0 /\ log = NoLog
                /\ (SetAlgorithm \/ SetTimeQuantum \/ AddProcess)
HarnessTick == ~isFinished /\ Tick
HarnessNext == HarnessSetup \/ HarnessTick
HarnessSpec == Init /\ [][HarnessNext]_vars

\* void Scheduler::setAging(bool enabled): declared in scheduler.h, bound in
\* wasm_main.cpp and called by runTest(); stores the flag
setAging(enabled) ==
    /\ agingEnabled' = enabled
    /\ UNCHANGED <<algorithm, timeQuantum, agingThreshold, currentTime, jobPool,
                   readyQueue, finishedProcesses, cpu, currentQuantumUsed, log,
                   submitted, submittedPriority, dispatchRun, lastExecutedId>>
    /\ snapshot' = <<>>

SetAging == \E enabled \in BOOLEAN : setAging(enabled)

\* void Scheduler::setAgingThreshold(int threshold): declared in scheduler.h,
\* bound in wasm_main.cpp and called by runTest(); stores the threshold
setAgingThreshold(threshold) ==
    /\ agingThreshold' = threshold
    /\ UNCHANGED <<algorithm, timeQuantum, agingEnabled, currentTime, jobPool,
                   readyQueue, finishedProcesses, cpu, currentQuantumUsed, log,
                   submitted, submittedPriority, dispatchRun, lastExecutedId>>
    /\ snapshot' = <<>>

SetAgingThreshold == \E threshold \in 1..MaxThreshold : setAgingThreshold(threshold)

\* runTest() with its setAging and setAgingThreshold calls: tick() reads
\* neither member, so Spec and HarnessSpec leave them at their defaults
AgingSetup == currentTime = 0 /\ log = NoLog /\ (SetAging \/ SetAgingThreshold)
AgingNext == HarnessSetup \/ AgingSetup \/ HarnessTick
AgingSpec == Init /\ [][AgingNext]_vars

\* runTest()'s loop, while (!scheduler.isFinished() && ...) tick(): the call
\* of tick() seen as the clock step it always makes
TickCall == ~isFinished /\ currentTime < MaxTime /\ currentTime' = currentTime + 1
\* runTest() with aging on or off at the threshold it always passes, and a
\* loop that does not stop while isFinished() is false
FairSetup == currentTime = 0 /\ log = NoLog /\ SetAging
FairNext == HarnessSetup \/ FairSetup \/ HarnessTick
FairSpec == Init /\ [][FairNext]_vars /\ WF_currentTime(TickCall)

\* nlohmann::json Scheduler::getStateJSON() const: the value built;
\* nullptr is the empty sequence
getStateJSON ==
    [time |-> currentTime,
     cpu_process |-> IF cpu # <<>>
                     THEN <<[id |-> cpu[1].id, remaining |-> cpu[1].remainingTime]>>
                     ELSE <<>>,
     ready_queue |-> [i \in 1..Len(readyQueue) |->
                        [id |-> readyQueue[i].id,
                         remaining |-> readyQueue[i].remainingTime,
                         priority |-> readyQueue[i].priority]],
     finished |-> [i \in 1..Len(finishedProcesses) |->
                     [id |-> finishedProcesses[i].id,
                      waiting_time |-> finishedProcesses[i].waitingTime,
                      turnaround_time |-> finishedProcesses[i].turnaroundTime]]]

\* getStateJSON() handing over the finished entries: it clears
\* finishedProcesses after reporting them
GetStateJSONDraining ==
    /\ snapshot' = <<getStateJSON>>
    /\ finishedProcesses' = <<>>
    /\ UNCHANGED <<algorithm, timeQuantum, agingEnabled, agingThreshold,
                   currentTime, jobPool, readyQueue, cpu, currentQuantumUsed,
                   log, lastExecutedId, submitted, submittedPriority, dispatchRun>>

\* a call of getStateJSON(), a const member function
GetStateJSON ==
    /\ snapshot' = <<getStateJSON>>
    /\ UNCHANGED <<algorithm, timeQuantum, agingEnabled, agingThreshold,
                   currentTime, jobPool, readyQueue, finishedProcesses, cpu,
                   currentQuantumUsed, log, lastExecutedId, submitted,
                   submittedPriority, dispatchRun>>

\* the methods with getStateJSON(), callable in any order (wasm_main.cpp)
ExportNext == Next \/ GetStateJSON
ExportSpec == Init /\ [][ExportNext]_vars

(* ------------------------- claim vocabulary --------------------------- *)
\* a step of tick(): the only operation that advances currentTime
TickStep == currentTime' = currentTime + 1
\* every process record the engine holds
Held == Range(jobPool) \cup Range(readyQueue) \cup Range(cpu)
            \cup Range(finishedProcesses)
\* the record of process id before the step
Proc(id) == CHOOSE p \in Held : p.id = id
\* ids in all four pools, in pool order
AllIds == SeqIds(jobPool) \o SeqIds(readyQueue) \o SeqIds(cpu)
             \o SeqIds(finishedProcesses)
\* the job-pool processes that arrive in the tick about to run, in pool order
ArrivingNow == LET due(p) == p.arrivalTime <= currentTime
               IN SelectSeq(jobPool, due)
\* the ready pool as the tick's dispatch sees it, arrivals included (records
\* before the step); under SRTF the running process is not in it
ReadyAfterArrivals == Range(readyQueue) \cup Range(ArrivingNow)
Last(s) == s[Len(s)]

(* ---------------------------------------------------------------------- *)
(* C1. Conservation: every submitted process is in exactly one of job     *)
(* pool, ready pool, CPU slot and finished list, the CPU slot holds at    *)
(* most one process, and the four sizes add up to the number submitted.   *)
(* ---------------------------------------------------------------------- *)
Conservation ==
    /\ Len(cpu) <= 1
    /\ Len(jobPool) + Len(readyQueue) + Len(cpu) + Len(finishedProcesses)
           = Cardinality(submitted)
    /\ \A id \in submitted :
           Cardinality({i \in 1..Len(AllIds) : AllIds[i] = id}) = 1

\* a preempted process sits in the ready pool while another one runs
ConservationWitness ==
    /\ log.expired # NoId
    /\ cpu # <<>> /\ cpu[1].id # log.expired
    /\ log.expired \in IdSet(readyQueue)
    /\ Cardinality(submitted) >= 2

(* ---------------------------------------------------------------------- *)
(* C2. Timing identity: every finished process has turnaroundTime ==      *)
(* completionTime - arrivalTime and turnaroundTime == waitingTime +       *)
(* burstTime; completionTime is currentTime + 1 of the tick in which      *)
(* remainingTime reached 0 (the value currentTime has after that tick).   *)
(* ---------------------------------------------------------------------- *)
TimingIdentity ==
    /\ \A p \in Range(finishedProcesses) :
           /\ p.turnaroundTime = p.completionTime - p.arrivalTime
           /\ p.turnaroundTime = p.waitingTime + p.burstTime
    /\ log.finished # NoId =>
           /\ finishedProcesses # <<>>
           /\ Last(finishedProcesses).id = log.finished
           /\ Last(finishedProcesses).remainingTime = 0
           /\ Last(finishedProcesses).completionTime = currentTime

\* a process that ran at its arrival, was preempted, waited and finished
TimingIdentityWitness ==
    \E p \in Range(finishedProcesses) :
        p.startTime = p.arrivalTime /\ p.waitingTime > 0

(* ---------------------------------------------------------------------- *)
(* C3. Under RR, when the running process's quantum expires in a tick in  *)
(* which processes arrive, the preempted process is in the ready pool     *)
(* ahead of all those arrivals (first conjunct).  It is then dispatched   *)
(* before any of them because an RR tick keeps the pool first-in          *)
(* first-out: old entries, then the preempted process, then the arrivals, *)
(* and the dispatch takes the front (second conjunct).                    *)
(* ---------------------------------------------------------------------- *)
RRPreemptedBeforeArrivals ==
    [][TickStep /\ algorithm = "RR" =>
         LET expired == IF log'.expired # NoId THEN <<log'.expired>> ELSE <<>>
             dispatched == IF log'.started # NoId THEN <<log'.started>> ELSE <<>>
             observed == dispatched \o SeqIds(readyQueue')
         IN /\ \A a \in IdSet(ArrivingNow) :
                   log'.expired # NoId =>
                       /\ Pos(observed, log'.expired) > 0
                       /\ Pos(observed, log'.expired) < Pos(observed, a)
            /\ observed = SeqIds(readyQueue) \o expired \o SeqIds(ArrivingNow)
            /\ log'.started # NoId => log'.running = log'.started
    ]_vars

\* the tick just run preempted on expiry, took an arrival, and ran the preempted
\* process again while the arrival waits
RRPreemptedBeforeArrivalsWitness ==
    /\ log.expired # NoId
    /\ log.running = log.expired
    /\ \E p \in Range(readyQueue) :
           p.arrivalTime = currentTime - 1 /\ p.startTime = Unset

(* ---------------------------------------------------------------------- *)
(* C4. Under RR with quantum q >= 1 (a run configured before its first    *)
(* tick), a dispatched process executes at most q consecutive ticks per   *)
(* dispatch; once it has run q ticks and still has remaining time it is   *)
(* removed from the CPU and appended to the back of the ready pool, the   *)
(* quantum counter is reset, and the front of the ready pool runs next.   *)
(* ---------------------------------------------------------------------- *)
RRQuantum ==
    [][TickStep /\ algorithm = "RR" /\ timeQuantum >= 1 =>
         /\ dispatchRun' <= timeQuantum
         /\ (cpu # <<>> /\ dispatchRun = timeQuantum) =>
                LET back == SeqIds(readyQueue) \o <<cpu[1].id>>
                IN /\ cpu[1].remainingTime > 0
                   /\ log'.expired = cpu[1].id
                   /\ log'.started = Head(back)
                   /\ log'.running = Head(back)
                   /\ dispatchRun' <= 1
                   /\ currentQuantumUsed' = 0
                   /\ SubSeq(SeqIds(readyQueue'), 1, Len(back) - 1) = Tail(back)
    ]_vars

\* quantum 2: a process ran two ticks, was preempted, and another one ran
RRQuantumWitness ==
    /\ algorithm = "RR" /\ timeQuantum = 2
    /\ log.expired # NoId
    /\ log.running # log.expired
    /\ log.expired \in IdSet(readyQueue)

(* ---------------------------------------------------------------------- *)
(* C5. Under SRTF, in a tick where after arrivals some ready process has  *)
(* strictly smaller remainingTime than the running process, the running   *)
(* process is preempted into the ready pool and the ready process with    *)
(* the least remainingTime executes; when none is strictly smaller (ties  *)
(* included) the running process is not preempted.                        *)
(* ---------------------------------------------------------------------- *)
SRTFPreemption ==
    [][TickStep /\ algorithm = "SRTF" /\ cpu # <<>> =>
         IF \E r \in ReadyAfterArrivals : r.remainingTime < cpu[1].remainingTime
         THEN /\ log'.preempted = cpu[1].id
              /\ cpu[1].id \in IdSet(readyQueue')
              /\ \E r \in ReadyAfterArrivals :
                     /\ log'.running = r.id
                     /\ \A o \in ReadyAfterArrivals :
                            r.remainingTime <= o.remainingTime
         ELSE /\ log'.preempted = NoId
              /\ log'.running = cpu[1].id
              /\ cpu[1].id \notin IdSet(readyQueue')
    ]_vars

\* the tick just run preempted the running process for a shorter one
SRTFPreemptionWitness ==
    /\ log.preempted # NoId
    /\ log.running # log.preempted
    /\ log.preempted \in IdSet(readyQueue)

(* ---------------------------------------------------------------------- *)
(* C6. Under the preemptive Priority policy, in a tick where some ready   *)
(* process has a strictly smaller priority value than the process in the  *)
(* CPU slot, the running process is preempted (moved to the ready pool)   *)
(* and the ready process with the smallest priority value executes.       *)
(* ---------------------------------------------------------------------- *)
PriorityPreemption ==
    [][(/\ TickStep /\ algorithm = "Priority" /\ cpu # <<>>
        /\ \E r \in ReadyAfterArrivals : r.priority < cpu[1].priority) =>
         /\ cpu[1].id \in IdSet(readyQueue')
         /\ \E r \in ReadyAfterArrivals :
                /\ log'.running = r.id
                /\ \A o \in ReadyAfterArrivals : r.priority <= o.priority
    ]_vars

(* ---------------------------------------------------------------------- *)
(* C7. Under FCFS, SJF and PriorityNP a running process is never          *)
(* preempted: a process in the CPU slot executes in every following tick  *)
(* until its remainingTime reaches 0, and never returns to the ready      *)
(* pool.                                                                  *)
(* ---------------------------------------------------------------------- *)
NonPreemptive ==
    [][(/\ TickStep /\ algorithm \in {"FCFS", "SJF", "PriorityNP"}
        /\ cpu # <<>>) =>
         /\ log'.running = cpu[1].id
         /\ log'.expired = NoId /\ log'.preempted = NoId
         /\ cpu[1].id \notin IdSet(readyQueue')
         /\ IF cpu[1].remainingTime = 1
            THEN /\ cpu' = <<>>
                 /\ Last(finishedProcesses').id = cpu[1].id
                 /\ Last(finishedProcesses').remainingTime = 0
            ELSE /\ cpu' # <<>>
                 /\ cpu'[1].id = cpu[1].id
                 /\ cpu'[1].remainingTime = cpu[1].remainingTime - 1
    ]_vars

\* SJF: a process keeps the CPU for a second tick while a shorter job waits
NonPreemptiveWitness ==
    /\ algorithm = "SJF"
    /\ cpu # <<>> /\ dispatchRun >= 2
    /\ \E r \in Range(readyQueue) : r.burstTime < cpu[1].burstTime

(* ---------------------------------------------------------------------- *)
(* C8. Dispatch order: whenever the CPU slot is empty and the ready pool  *)
(* is non-empty, the process dispatched is minimal under the policy's     *)
(* key: burstTime for SJF, remainingTime for SRTF, priority for Priority  *)
(* and PriorityNP.                                                        *)
(* ---------------------------------------------------------------------- *)
PolicyKey(algo, p) ==
    CASE algo = "SJF" -> p.burstTime
      [] algo = "SRTF" -> p.remainingTime
      [] algo \in {"Priority", "PriorityNP"} -> p.priority

\* the processes a dispatch chose among: the one taken and those left ready
DispatchedFrom == {Proc(id) : id \in {log'.started} \cup IdSet(readyQueue')}

DispatchOrder ==
    [][(/\ TickStep /\ log'.started # NoId
        /\ algorithm \in {"SJF", "SRTF", "Priority", "PriorityNP"}) =>
         \A o \in DispatchedFrom :
             PolicyKey(algorithm, Proc(log'.started)) <= PolicyKey(algorithm, o)
    ]_vars

(* ---------------------------------------------------------------------- *)
(* C9. Dispatch tie-break: when several ready processes are equal on the  *)
(* policy key, the one with the smallest arrivalTime is dispatched, and   *)
(* among equal arrivalTime the one with the smallest id.  Stated for the  *)
(* policies whose key the dispatch reads (SJF, SRTF, Priority);           *)
(* PriorityNP is C8's case.                                               *)
(* ---------------------------------------------------------------------- *)
DispatchTieBreak ==
    [][(/\ TickStep /\ log'.started # NoId
        /\ algorithm \in {"SJF", "SRTF", "Priority"}) =>
         LET d == Proc(log'.started)
         IN \A o \in DispatchedFrom :
                (o.id # d.id /\ PolicyKey(algorithm, o) = PolicyKey(algorithm, d)) =>
                    \/ d.arrivalTime < o.arrivalTime
                    \/ d.arrivalTime = o.arrivalTime /\ d.id < o.id
    ]_vars

(* ---------------------------------------------------------------------- *)
(* C10. First-dispatch bookkeeping: a process that has been dispatched    *)
(* has startTime = the tick of its first dispatch and responseTime =      *)
(* startTime - arrivalTime >= 0, both unchanged by later re-dispatches;   *)
(* a process never dispatched has both unset.                             *)
(* ---------------------------------------------------------------------- *)
FirstDispatchBookkeeping ==
    /\ \A p \in Range(jobPool) :
           p.startTime = Unset /\ p.responseTime = Unset
    /\ \A p \in Range(readyQueue) \cup Range(cpu) \cup Range(finishedProcesses) :
           IF p.startTime = Unset
           THEN p.responseTime = Unset /\ p.remainingTime = p.burstTime
           ELSE /\ p.startTime >= p.arrivalTime
                /\ p.responseTime = p.startTime - p.arrivalTime
                /\ p.responseTime >= 0

(* ------------------- remaining time and pool lifecycle ---------------- *)
\* the ids held outside the finished list
Unfinished == IdSet(jobPool) \cup IdSet(readyQueue) \cup IdSet(cpu)

\* C11 Monotonicity: over any step, every process's remainingTime does not
\* increase; over a tick it drops by exactly 1 if and only if the process is
\* the one the tick executed, and is otherwise unchanged; remainingTime is 0
\* exactly for the processes of the finished list; the tick in which it
\* reaches 0 appends the process to the finished list, and a process in the
\* finished list stays there and is in no other pool.
Monotonicity ==
    [][\A p \in Held : \E q \in Held' :
         /\ q.id = p.id
         /\ q.remainingTime <= p.remainingTime
         /\ q.remainingTime \in {p.remainingTime, p.remainingTime - 1}
         /\ (q.remainingTime = p.remainingTime - 1)
               <=> (TickStep /\ log'.running = p.id)
         /\ (q.remainingTime = 0) <=> (p.id \in IdSet(finishedProcesses'))
         /\ (p.remainingTime > 0 /\ q.remainingTime = 0)
               => /\ finishedProcesses' = Append(finishedProcesses, q)
                  /\ log'.finished = p.id
         /\ p.id \in IdSet(finishedProcesses)
               => /\ p.id \in IdSet(finishedProcesses')
                  /\ p.id \notin Unfinished'
                  /\ q.remainingTime = 0
    ]_vars

\* a tick finished one process while another, run in part and put back, waits
MonotonicityWitness ==
    /\ log.finished # NoId
    /\ \E r \in Range(readyQueue) :
          0 < r.remainingTime /\ r.remainingTime < r.burstTime

\* the pool holding process id: 1 job pool, 2 ready pool, 3 CPU slot,
\* 4 finished list, 0 when the process has not been submitted
Stage(id) ==
    IF id \in IdSet(jobPool) THEN 1
    ELSE IF id \in IdSet(readyQueue) THEN 2
    ELSE IF id \in IdSet(cpu) THEN 3
    ELSE IF id \in IdSet(finishedProcesses) THEN 4
    ELSE 0

\* C12 Pool lifecycle: over any step a process never moves to an earlier pool
\* of job pool, ready pool, CPU slot, finished list, except from the CPU slot
\* to the ready pool in a tick that reports it preempted (quantum expiry or
\* SRTF preemption); only a process not yet submitted enters the job pool;
\* and the finished list after the step has the list before as a prefix.
PoolLifecycle ==
    [][/\ \A id \in Ids :
            /\ Stage(id) = 0 => Stage(id)' \in {0, 1}
            /\ Stage(id) # 0 =>
                  \/ Stage(id)' >= Stage(id)
                  \/ /\ Stage(id) = 3
                     /\ Stage(id)' = 2
                     /\ TickStep
                     /\ id \in {log'.expired, log'.preempted}
            /\ Stage(id)' = 1 => Stage(id) \in {0, 1}
       /\ Len(finishedProcesses') >= Len(finishedProcesses)
       /\ SubSeq(finishedProcesses', 1, Len(finishedProcesses)) = finishedProcesses
    ]_vars

\* a tick preempted the running process, which waits in the ready pool again
\* while the finished list is not empty
PoolLifecycleWitness ==
    /\ log.preempted # NoId
    /\ log.preempted \in IdSet(readyQueue)
    /\ finishedProcesses # <<>>

(* --------------------------- completion query ------------------------- *)
\* C13 isFinished(): the value isFinished() returns (job pool, ready pool
\* and CPU slot all empty) is true in exactly the reachable states in which
\* every submitted process is in the finished list, and then the finished
\* list holds nothing else.
IsFinishedEquivalence ==
    /\ isFinished <=> (\A id \in submitted : id \in IdSet(finishedProcesses))
    /\ isFinished => IdSet(finishedProcesses) = submitted

\* isFinished() is true after ticks have run two or more processes to the end
IsFinishedEquivalenceWitness ==
    /\ isFinished
    /\ currentTime > 0
    /\ Len(finishedProcesses) >= 2
    /\ IdSet(finishedProcesses) = submitted

\* C14 tick() when isFinished() is already true: a step taken from a state in
\* which isFinished() is true leaves currentTime, the ready pool, the CPU
\* slot, the finished list and the quantum counter unchanged (only
\* addProcess and the setters act there; a tick is a no-op).
TickWhenFinishedNoOp ==
    [][isFinished =>
          UNCHANGED <<currentTime, readyQueue, cpu, finishedProcesses,
                      currentQuantumUsed>>
    ]_vars

(* ----------------------------- error handling ------------------------- *)
\* the policy names of the specification
PolicyNames == {"FCFS", "SJF", "SRTF", "RR", "Priority", "PriorityNP"}

\* C15 Unknown policy name: a tick taken while the policy is a name outside
\* the specification's policies leaves exactly the pools, CPU slot, finished
\* list with its statistics, quantum counter and trace events that the same
\* tick leaves when the policy is FCFS.
UnknownPolicyIsFCFS ==
    [][(TickStep /\ algorithm \notin PolicyNames) =>
          LET r == tickResult([Engine EXCEPT !.algorithm = "FCFS"])
          IN /\ jobPool' = r.jobPool
             /\ readyQueue' = r.readyQueue
             /\ cpu' = r.cpu
             /\ finishedProcesses' = r.finishedProcesses
             /\ currentQuantumUsed' = r.currentQuantumUsed
             /\ log' = r.log
    ]_vars

\* under an unknown policy name a process keeps the CPU although a waiting
\* process has a shorter burst, a smaller priority value and a smaller id
UnknownPolicyIsFCFSWitness ==
    /\ algorithm \notin PolicyNames
    /\ cpu # <<>>
    /\ log.started = NoId
    /\ log.running = cpu[1].id
    /\ \E r \in Range(readyQueue) :
          /\ r.burstTime < cpu[1].burstTime
          /\ r.priority < cpu[1].priority
          /\ r.id < cpu[1].id

\* some process is in the CPU slot or the ready pool, or arrives in the tick
\* about to run
Runnable == cpu # <<>> \/ readyQueue # <<>> \/ ArrivingNow # <<>>

\* C16 Non-positive quantum: a tick taken under RR while the quantum set
\* through setTimeQuantum is zero or negative leaves exactly the pools, CPU
\* slot, finished list, quantum counter and trace events that the same tick
\* leaves with quantum 1 (the value acts as if clamped to 1), and it executes
\* one unit of work whenever a process is in the CPU slot or the ready pool
\* or arrives in that tick.
NonPositiveQuantum ==
    [][(TickStep /\ algorithm = "RR" /\ timeQuantum <= 0) =>
          LET r == tickResult([Engine EXCEPT !.timeQuantum = 1])
          IN /\ jobPool' = r.jobPool
             /\ readyQueue' = r.readyQueue
             /\ cpu' = r.cpu
             /\ finishedProcesses' = r.finishedProcesses
             /\ currentQuantumUsed' = r.currentQuantumUsed
             /\ log' = r.log
             /\ Runnable => /\ log'.running # NoId
                            /\ \E p \in Held : \E q \in Held' :
                                  /\ q.id = p.id
                                  /\ q.id = log'.running
                                  /\ q.remainingTime = p.remainingTime - 1
    ]_vars

\* under RR with a negative quantum a tick took the CPU from one process at
\* quantum expiry and ran another
NonPositiveQuantumWitness ==
    /\ algorithm = "RR"
    /\ timeQuantum < 0
    /\ log.expired # NoId
    /\ log.running # NoId
    /\ log.running # log.expired

(* -------------------------------- aging -------------------------------- *)
\* C17 Aging boost: in a tick taken with aging enabled, every process left
\* in the ready pool has its ageCounter raised by 1, or, when that reaches
\* the aging threshold, its priority lowered by 1 (not below 0) and its
\* ageCounter back at 0; the process in the CPU slot and the job-pool
\* processes keep their priority and ageCounter; whatever the policy.
AgingBoost ==
    [][(TickStep /\ agingEnabled) =>
          \A p \in Held : \E q \in Held' :
             /\ q.id = p.id
             /\ IF q.id \in IdSet(readyQueue')
                THEN IF p.ageCounter + 1 >= agingThreshold
                     THEN /\ q.ageCounter = 0
                          /\ q.priority = IF p.priority > 0 THEN p.priority - 1 ELSE 0
                     ELSE /\ q.ageCounter = p.ageCounter + 1
                          /\ q.priority = p.priority
                ELSE /\ q.ageCounter = p.ageCounter
                     /\ q.priority = p.priority
    ]_vars

\* the smaller of two numbers
Min(a, b) == IF a <= b THEN a ELSE b

\* C18 Aging bounds starvation: under Priority with aging enabled and
\* threshold T, a process submitted with priority 1 or more that has waited
\* in the ready pool since its arrival without being dispatched, for w ticks,
\* has a priority value at least min(w \div T, submitted priority) below the
\* submitted one, and w is at most T * (submitted priority).
AgingBoundsStarvation ==
    (algorithm = "Priority" /\ agingEnabled) =>
        \A p \in Range(readyQueue) :
            (p.startTime = Unset /\ submittedPriority[p.id] >= 1) =>
                /\ p.priority <= submittedPriority[p.id]
                                   - Min(p.waitingTime \div agingThreshold,
                                         submittedPriority[p.id])
                /\ p.waitingTime <= agingThreshold * submittedPriority[p.id]

(* ----------------------------- termination ---------------------------- *)
\* C19 Termination: in a run configured and loaded before its first tick
\* (any policy, any quantum, aging on or off) and ticked as long as
\* isFinished() is false, whenever isFinished() is false it later becomes
\* true with the finished list holding exactly the submitted processes.
Termination ==
    (~isFinished) ~> (isFinished /\ IdSet(finishedProcesses) = submitted
                        /\ Len(finishedProcesses) = Cardinality(submitted))

\* a run with aging on has ended with every process of a full workload
\* finished, the last of them after waiting
TerminationWitness ==
    /\ isFinished
    /\ agingEnabled
    /\ Cardinality(submitted) = MaxProcs
    /\ Len(finishedProcesses) = MaxProcs
    /\ finishedProcesses[MaxProcs].waitingTime > 0

(* ------------------------------ FCFS order ---------------------------- *)
\* the ids in service order: finished list, CPU slot, ready pool, and last the
\* job pool, which addProcess appends to
Line == SeqIds(finishedProcesses) \o SeqIds(cpu) \o SeqIds(readyQueue)
           \o SeqIds(jobPool)
\* process a is ahead of process b in service order
Ahead(a, b) == Pos(Line, a.id) < Pos(Line, b.id)
\* process a arrives before process b, or with it and was submitted before it
\* (two processes of one arrival time stand in submission order in the line)
Earlier(a, b) ==
    \/ a.arrivalTime < b.arrivalTime
    \/ a.arrivalTime = b.arrivalTime /\ Ahead(a, b)

\* C20 FCFS order: in a run under FCFS, a submission goes to the end of the
\* line; over a tick, of two processes the one with the smaller arrivalTime,
\* or of equal arrivalTime the one submitted first, is ahead of the other
\* once the other has entered the ready pool, so it is dispatched and
\* completes first; the tick dispatches nothing but the process then first in
\* line after the finished ones; and a process first dispatched at its
\* arrival tick has waitingTime 0.
FCFSOrder ==
    [][algorithm' = "FCFS" =>
          /\ ~TickStep =>
                \/ Line' = Line
                \/ \E id \in Ids \ submitted : Line' = Append(Line, id)
          /\ (TickStep /\ algorithm = "FCFS") =>
                /\ \A a \in Held, b \in Held :
                      (Earlier(a, b) /\ b.id \notin IdSet(jobPool'))
                         => Pos(Line', a.id) < Pos(Line', b.id)
                /\ \A a \in Held, b \in Held :
                      (a.arrivalTime = b.arrivalTime /\ Ahead(a, b))
                         => Pos(Line', a.id) < Pos(Line', b.id)
                /\ log'.started # NoId =>
                      /\ log'.preempted = NoId /\ log'.expired = NoId
                      /\ Pos(Line', log'.started) = Len(finishedProcesses) + 1
          /\ \A q \in Held' :
                q.startTime = q.arrivalTime => q.waitingTime = 0
    ]_vars

\* under FCFS three processes have finished: two of one arrival time in
\* submission order against their ids, the first of them without waiting,
\* then one that arrived later
FCFSOrderWitness ==
    /\ algorithm = "FCFS"
    /\ Len(finishedProcesses) = 3
    /\ finishedProcesses[1].arrivalTime = finishedProcesses[2].arrivalTime
    /\ finishedProcesses[1].id > finishedProcesses[2].id
    /\ finishedProcesses[1].waitingTime = 0
    /\ finishedProcesses[2].arrivalTime < finishedProcesses[3].arrivalTime
    /\ finishedProcesses[3].id < finishedProcesses[1].id

(* ------------------------------ state export -------------------------- *)
\* the members of the engine, without the history variables
members == <<algorithm, timeQuantum, agingEnabled, agingThreshold, currentTime,
             jobPool, readyQueue, finishedProcesses, cpu, currentQuantumUsed,
             lastExecutedId>>

\* C21 State export: a call of getStateJSON (the only step that leaves a
\* snapshot behind) changes no member of the engine, and when the previous
\* call was made with no tick or mutator in between, it returns the snapshot
\* that call returned.
ExportReadOnly ==
    [][snapshot' # <<>> =>
          /\ UNCHANGED members
          /\ snapshot # <<>> => snapshot' = snapshot
    ]_vars

\* getStateJSON was called after a tick that left a process on the CPU, one
\* waiting and one finished, and no tick or mutator was called since
ExportReadOnlyWitness ==
    /\ snapshot = <<getStateJSON>>
    /\ snapshot[1].cpu_process # <<>>
    /\ snapshot[1].ready_queue # <<>>
    /\ snapshot[1].finished # <<>>
    /\ snapshot[1].time > 0

\* C22 Last executed: once a tick has run, the member lastExecutedId holds the
\* id of the process the last tick executed (the no-process id iff that tick
\* was idle), also when that process finished in the tick; and a snapshot
\* taken then has a last_executed entry holding that id (empty iff idle).
LastExecutedRecorded ==
    /\ log # NoLog => lastExecutedId = log.running
    /\ (log # NoLog /\ snapshot # <<>>) =>
          /\ "last_executed" \in DOMAIN snapshot[1]
          /\ snapshot[1].last_executed
                = IF log.running = NoId THEN <<>> ELSE <<[id |-> log.running]>>

(* ---------------------- waiting, work, shortest first ------------------ *)
\* C23 Waiting-time accrual: over a tick a process's waitingTime grows by
\* exactly 1 if the process is in the ready pool when the tick ends (the
\* ready pool after dispatch) and stays as it was if the process is then in
\* the job pool, on the CPU or finished, the process the tick executed
\* included; no other step changes it, so it never decreases.
WaitingAccrual ==
    [][\A p \in Held : \E q \in Held' :
         /\ q.id = p.id
         /\ q.waitingTime >= p.waitingTime
         /\ q.waitingTime
               = IF TickStep /\ p.id \in IdSet(readyQueue')
                 THEN p.waitingTime + 1
                 ELSE p.waitingTime
         /\ p.id = log'.running => q.waitingTime = p.waitingTime
    ]_vars

\* a process that ran and was put back has waited since, while the process
\* running now, which waited before its dispatch, did not wait in this tick
WaitingAccrualWitness ==
    /\ cpu # <<>>
    /\ log.running = cpu[1].id
    /\ cpu[1].waitingTime > 0
    /\ \E r \in Range(readyQueue) :
          /\ r.remainingTime < r.burstTime
          /\ r.waitingTime >= 1

\* the ids of the processes whose remainingTime the step lowers by one
Executed == {p.id : p \in {x \in Held : \E q \in Held' :
                              q.id = x.id /\ q.remainingTime = x.remainingTime - 1}}

\* C24 Work conservation: under every policy and quantum, a tick taken when
\* some process is on the CPU, in the ready pool or arriving in that tick
\* executes exactly one process for one unit and is not idle; a tick taken
\* when there is none executes nothing and is idle.
WorkConservation ==
    [][TickStep =>
          IF Runnable
          THEN /\ log'.running # NoId
               /\ ~log'.idle
               /\ Executed = {log'.running}
          ELSE /\ log'.running = NoId
               /\ log'.idle
               /\ Executed = {}
    ]_vars

\* a tick took the CPU from the only unfinished process at quantum expiry,
\* dispatched it again and ran it
WorkConservationWitness ==
    /\ log.expired # NoId
    /\ log.running = log.expired
    /\ log.started = log.expired
    /\ readyQueue = <<>>
    /\ cpu # <<>>
    /\ finishedProcesses # <<>>

\* C25 SRTF shortest first: in a tick under SRTF that executes a process, the
\* remainingTime that process has when it executes (its value before the
\* tick's decrement) is at most the remainingTime of every process in the
\* ready pool in that tick.
SRTFShortestFirst ==
    [][(TickStep /\ algorithm = "SRTF" /\ log'.running # NoId) =>
          \A r \in Range(readyQueue') :
              Proc(log'.running).remainingTime <= r.remainingTime
    ]_vars

\* under SRTF a tick dispatched one of three waiting processes, without a
\* preemption, and two with more work left stay in the ready pool, one of
\* them with a smaller id than the one chosen
SRTFShortestFirstWitness ==
    /\ algorithm = "SRTF"
    /\ log.started # NoId
    /\ log.running = log.started
    /\ log.preempted = NoId
    /\ Len(readyQueue) = 2
    /\ \E r \in Range(readyQueue) : r.id < log.running /\ r.remainingTime > 1

(* -------------------------------- makespan ---------------------------- *)
\* the largest arrivalTime in a non-empty sequence of processes
latestArrival(q) ==
    LET i == CHOOSE i \in 1..Len(q) :
                 \A j \in 1..Len(q) : q[j].arrivalTime <= q[i].arrivalTime
    IN q[i].arrivalTime

\* C26 Makespan bound: in a run loaded before its first tick, under every
\* policy and quantum, the tick that makes isFinished() true ends with
\* currentTime at most the largest arrivalTime plus the sum of the burst
\* times of the workload, and no tick appends more than one process to the
\* finished list.
MakespanBound ==
    [][TickStep =>
          /\ Len(finishedProcesses') <= Len(finishedProcesses) + 1
          /\ isFinished' =>
                currentTime' <= latestArrival(finishedProcesses')
                                  + burstSum(finishedProcesses')
    ]_vars

\* a run of two or more processes, none arriving at time 0, ended exactly at
\* the bound
MakespanBoundWitness ==
    /\ isFinished
    /\ Len(finishedProcesses) >= 2
    /\ \A p \in Range(finishedProcesses) : p.arrivalTime > 0
    /\ currentTime = latestArrival(finishedProcesses) + burstSum(finishedProcesses)

====
